---- MODULE Spec2Model ----
(***************************************************************************)
(* Model of the Tijuana "businesses without a website" crawlers:           *)
(*   src/exhaustive.py                 grid scan, no category filter       *)
(*   src/places.py                     grid scan, PROMO_TYPES filter       *)
(*   src/tijuana_places_no_website.py  one 20 km circle, no seen-set       *)
(* The scripts are sequential; the places-search provider is the           *)
(* environment and answers every request nondeterministically.             *)
(***************************************************************************)
EXTENDS Integers, Sequences, FiniteSets, TLC

(***************************************************************************)
(* Python floats (IEEE-754 binary64, round to nearest, ties to even).      *)
(* A magnitude is a fixed-point number of four limbs of 22 bits, least     *)
(* significant first: <<l1, l2, l3, l4>> stands for                        *)
(*     (l1 + l2 * 2^22 + l3 * 2^44 + l4 * 2^66) * 2^-66.                  *)
(* Every float the model meets lies below 2^8 and is a multiple of 2^-66,  *)
(* so sums and differences of magnitudes are exact before they are         *)
(* rounded to 53 significant bits, and the bits rounded off lie in l1.     *)
(***************************************************************************)
MANT == 53

\* the base of a limb
B == 2^22

ZeroMag == <<0, 0, 0, 0>>

\* exact a + b
AddMag(a, b) ==
    LET s1 == a[1] + b[1]
        s2 == a[2] + b[2] + (s1 \div B)
        s3 == a[3] + b[3] + (s2 \div B)
        s4 == a[4] + b[4] + (s3 \div B)
    IN  <<s1 % B, s2 % B, s3 % B, s4>>

\* exact a - b, for a >= b
SubMag(a, b) ==
    LET d1 == a[1] - b[1]
        d2 == a[2] - b[2] - (IF d1 < 0 THEN 1 ELSE 0)
        d3 == a[3] - b[3] - (IF d2 < 0 THEN 1 ELSE 0)
        d4 == a[4] - b[4] - (IF d3 < 0 THEN 1 ELSE 0)
    IN  <<d1 % B, d2 % B, d3 % B, d4>>

\* a < b on magnitudes
LessMag(a, b) ==
    \E h \in 1..4 : a[h] < b[h] /\ \A j \in (h+1)..4 : a[j] = b[j]

\* number of bits of a limb
BitLen(v) == IF v = 0 THEN 0 ELSE CHOOSE k \in 1..31 : 2^(k-1) <= v /\ v \div 2 < 2^(k-1)

\* position of the highest set bit of a magnitude, 0 when it is zero
Top(a) ==
    IF a[4] > 0 THEN 66 + BitLen(a[4])
    ELSE IF a[3] > 0 THEN 44 + BitLen(a[3])
    ELSE IF a[2] > 0 THEN 22 + BitLen(a[2])
    ELSE BitLen(a[1])

\* round an exact magnitude to MANT significant bits, ties to even;
\* sticky tells that a nonzero remainder lies below the last limb
RoundMag(a, sticky) ==
    LET cut == Top(a) - MANT
    IN  IF cut <= 0 THEN a
        ELSE LET q     == 2^cut
                 r     == a[1] % q
                 half  == q \div 2
                 odd   == (a[1] \div q) % 2 = 1
                 trunc == <<a[1] - r, a[2], a[3], a[4]>>
             IN  IF r > half \/ (r = half /\ (sticky \/ odd))
                 THEN AddMag(trunc, <<q, 0, 0, 0>>)
                 ELSE trunc

\* a float: sign and magnitude
Float(neg, mag) == [neg |-> neg /\ mag # ZeroMag, mag |-> mag]

\* x + y as Python computes it
FAdd(x, y) ==
    IF x.neg = y.neg THEN Float(x.neg, RoundMag(AddMag(x.mag, y.mag), FALSE))
    ELSE IF LessMag(x.mag, y.mag)
         THEN Float(y.neg, RoundMag(SubMag(y.mag, x.mag), FALSE))
         ELSE Float(x.neg, RoundMag(SubMag(x.mag, y.mag), FALSE))

\* x < y as Python computes it
FLess(x, y) ==
    IF x.neg /\ ~y.neg THEN TRUE
    ELSE IF ~x.neg /\ y.neg THEN FALSE
    ELSE IF x.neg THEN LessMag(y.mag, x.mag)
    ELSE LessMag(x.mag, y.mag)

\* the float a decimal literal num/den denotes (correctly rounded), for
\* den <= 2^20: long division, 11 bits at a time
Lit(neg, num, den) ==
    LET C  == 2^11
        r0 == num % den
        r1 == (r0 * C) % den
        r2 == (r1 * C) % den
        r3 == (r2 * C) % den
        r4 == (r3 * C) % den
        r5 == (r4 * C) % den
        r6 == (r5 * C) % den
        l3 == ((r0 * C) \div den) * C + ((r1 * C) \div den)
        l2 == ((r2 * C) \div den) * C + ((r3 * C) \div den)
        l1 == ((r4 * C) \div den) * C + ((r5 * C) \div den)
    IN  Float(neg, RoundMag(<<l1, l2, l3, num \div den>>, r6 # 0))

(***************************************************************************)
(* frange: src/exhaustive.py 34-39.                                        *)
(***************************************************************************)
RECURSIVE FrangeRec(_, _, _, _)
FrangeRec(x, stop, step, acc) ==
    IF FLess(x, stop) THEN FrangeRec(FAdd(x, step), stop, step, Append(acc, x))
    ELSE acc

frange(start, stop, step) == FrangeRec(start, stop, step, <<>>)


\* itertools.product of two lists, first factor outermost
product(a, b) ==
    [k \in 1..(Len(a) * Len(b)) |->
        <<a[((k - 1) \div Len(b)) + 1], b[((k - 1) % Len(b)) + 1]>>]

(***************************************************************************)
(* Python values.  A dict is a function whose domain is the set of keys    *)
(* present; None is a value of its own.                                    *)
(***************************************************************************)
None == "<None>"

Has(d, k) == k \in DOMAIN d

\* d.get(k, default)
Get(d, k, default) == IF k \in DOMAIN d THEN d[k] ELSE default

\* bool(v) for the strings and None the scripts test
Truthy(v) == v # None /\ v # ""

\* a or b
Or(a, b) == IF Truthy(a) THEN a ELSE b

Range(s) == {s[i] : i \in 1..Len(s)}

\* the empty dict
EmptyDict == <<>>

\* the ways key k can occur in a dict: left out, or present with a value of vals
Opt(k, vals) == {EmptyDict} \cup {k :> v : v \in vals}

(***************************************************************************)
(* Configuration.                                                          *)
(***************************************************************************)
Variants == {"exhaustive", "places", "tijuana"}

GridVariants == {"exhaustive", "places"}

PROMO_TYPES == {
    "restaurant", "cafe", "coffee_shop", "bakery", "ice_cream_shop",
    "pizza_restaurant", "dessert_shop", "bar", "pub",
    "barber_shop", "beauty_salon", "hair_salon", "nail_salon",
    "spa", "massage", "wellness_center", "yoga_studio",
    "dental_clinic", "physiotherapist", "chiropractor",
    "bed_and_breakfast", "guest_house", "hostel", "inn",
    "wedding_venue", "event_venue", "community_center",
    "tour_agency", "travel_agency",
    "clothing_store", "gift_shop", "book_store", "jewelry_store",
    "furniture_store", "pet_store", "sporting_goods_store", "florist",
    "electrician", "plumber", "locksmith", "painter", "laundry" }

RADIUS_M == 1500

SLEEP_S == 2

\* a bounding box and its steps, as the decimal literals of the script
Box(latmin, latmax, lonmin, lonmax, latstep, lonstep) ==
    [LAT_MIN |-> latmin, LAT_MAX |-> latmax, LON_MIN |-> lonmin,
     LON_MAX |-> lonmax, LAT_STEP |-> latstep, LON_STEP |-> lonstep]

\* the box the crawl is run on: (0,0)-(0.04,0.02), step 0.02, two grid points
CrawlBoxes ==
    { Box(Lit(FALSE, 0, 100), Lit(FALSE, 4, 100), Lit(FALSE, 0, 100),
          Lit(FALSE, 2, 100), Lit(FALSE, 2, 100), Lit(FALSE, 2, 100)) }

\* the boxes the grid generator is run on: 0 .. d/10 by s/10 on each axis,
\* and the script's own box
GridBoxes ==
    { Box(Lit(FALSE, 0, 10), Lit(FALSE, d, 10), Lit(FALSE, 0, 10),
          Lit(FALSE, e, 10), Lit(FALSE, s, 10), Lit(FALSE, s, 10)) :
      d \in 1..12, e \in {3, 8}, s \in 1..5 }
    \cup
    { Box(Lit(FALSE, 3242, 100), Lit(FALSE, 3259, 100), Lit(TRUE, 11713, 100),
          Lit(TRUE, 11688, 100), Lit(FALSE, 2, 100), Lit(FALSE, 2, 100)) }

(***************************************************************************)
(* The provider.                                                           *)
(***************************************************************************)
MaxPages == 2

MaxSightings == 2

PageNumCap == MaxPages + 1

Ids == {"A", "B"}

Tokens == {"t1", "t2"}

StatusCodes == {200, 403, 500}

\* lists of at most n place ids
RECURSIVE IdLists(_)
IdLists(n) ==
    IF n = 0 THEN {<<>>}
    ELSE LET shorter == IdLists(n - 1)
         IN  shorter \cup {Append(l, i) : l \in {m \in shorter : Len(m) = n - 1}, i \in Ids}

AllIdLists == IdLists(MaxSightings)

\* the ways a response can name its next page: not at all, "", or a token
TokenFields == Opt("nextPageToken", Tokens \cup {""})

LastTokenFields == Opt("nextPageToken", {""})

\* a search response body: "places" is left out when nothing was found,
\* "nextPageToken" when there is no further page
SearchBody(l, t) ==
    (IF l = <<>> THEN EmptyDict ELSE "places" :> [k \in 1..Len(l) |-> [id |-> l[k]]]) @@ t

\* the detail bodies the provider may send, with the type fields when the
\* field mask asks for them
PlainDetailBodies ==
    { ("formattedAddress" :> "123 St") @@ dn @@ ip @@ np @@ w :
      dn \in Opt("displayName", {[text |-> "Cafe X"]}),
      ip \in Opt("internationalPhoneNumber", {"", "+52 664 555 1234"}),
      np \in Opt("nationalPhoneNumber", {"555-1234"}),
      w  \in Opt("websiteUri", {"", "http://x.com"}) }

TypedDetailBodies ==
    { d @@ ty @@ pt :
      d \in PlainDetailBodies,
      ty \in Opt("types", {<<"cafe">>, <<"bank">>}),
      pt \in Opt("primaryType", {"cafe", "bank"}) }

DetailBodies(withTypes) == IF withTypes THEN TypedDetailBodies ELSE PlainDetailBodies

\* only server errors raise
RaisesForServerError(code) == code >= 500 /\ code < 600

\* requests.Response.raise_for_status: raises for 4xx and 5xx
RaisesForStatus(code) == code >= 400 /\ code < 600


VARIABLES
    variant,      \* which script runs
    box,          \* LAT_MIN .. LON_STEP
    lats,         \* what frange(LAT_MIN, LAT_MAX, LAT_STEP) yields
    lons,         \* what frange(LON_MIN, LON_MAX, LON_STEP) yields
    grid_points,  \* list(product(frange(..), frange(..)))
    idx,          \* position of the for loop over grid_points
    page_token,   \* page_token / token
    page_num,     \* page_num / page
    req,          \* body of the last search request sent
    resp,         \* body of the last search response
    todo,         \* place ids of the page the inner for loop has yet to visit
    pid,          \* place id of the last detail request
    det,          \* body of the last detail response
    status,       \* status code of the last response
    seen,         \* seen_ids / seen
    rows,         \* rows / found
    waited,       \* seconds slept since the last search response
    file,         \* lines of tijuana_no_website.csv, NoFile while it does not exist
    msg,          \* last status line printed by the export step
    budget,       \* place entries the provider may still return
    fetched,      \* detail requests issued so far, per place id
    row_ids,      \* the place id each element of rows came from
    pc

vars == <<variant, box, lats, lons, grid_points, idx, page_token, page_num, req, resp, todo,
          pid, det, status, seen, rows, waited, file, msg, budget, fetched,
          row_ids, pc>>

NoFile == <<>>

HEADER == <<"name", "address", "phone">>

\* the state the script starts in; with built, the state of a grid scan once
\* grid_points has been computed
InitWith(variants, boxes, n, built) ==
    /\ variant \in variants
    /\ box \in boxes
    /\ lats = IF built THEN frange(box.LAT_MIN, box.LAT_MAX, box.LAT_STEP) ELSE <<>>
    /\ lons = IF built THEN frange(box.LON_MIN, box.LON_MAX, box.LON_STEP) ELSE <<>>
    /\ grid_points = product(lats, lons)
    /\ idx = 0
    /\ page_token = None
    /\ page_num = 0
    /\ req = EmptyDict
    /\ resp = EmptyDict
    /\ todo = <<>>
    /\ pid = None
    /\ det = EmptyDict
    /\ status = 0
    /\ seen = {}
    /\ rows = <<>>
    /\ waited = 0
    /\ file = NoFile
    /\ msg = ""
    /\ budget = n
    /\ fetched = [i \in Ids |-> 0]
    /\ row_ids = <<>>
    /\ pc = IF variant \notin GridVariants THEN "nearby"
            ELSE IF built THEN "for" ELSE "grid"

Init == InitWith(Variants, CrawlBoxes, MaxSightings, FALSE)

\* grid_points = list(product(frange(LAT..), frange(LON..)))
BuildGrid ==
    /\ pc = "grid"
    /\ lats' = frange(box.LAT_MIN, box.LAT_MAX, box.LAT_STEP)
    /\ lons' = frange(box.LON_MIN, box.LON_MAX, box.LON_STEP)
    /\ grid_points' = product(lats', lons')
    /\ pc' = "for"
    /\ UNCHANGED <<variant, box, idx, page_token, page_num, req, resp, todo, pid,
                   det, status, seen, rows, waited, file, msg, budget, fetched, row_ids>>

\* for idx, (lat, lon) in enumerate(grid_points, 1): page_token = None; page_num = 0
ForPoint ==
    /\ pc = "for"
    /\ IF idx < Len(grid_points)
       THEN /\ idx' = idx + 1
            /\ page_token' = None
            /\ page_num' = 0
            /\ pc' = "nearby"
       ELSE /\ pc' = "export"
            /\ UNCHANGED <<idx, page_token, page_num>>
    /\ UNCHANGED <<variant, box, lats, lons, grid_points, req, resp, todo, pid, det, status,
                   seen, rows, waited, file, msg, budget, fetched, row_ids>>

\* the circle of the first request of a walk
Circle ==
    IF variant = "tijuana"
    THEN [center |-> [latitude |-> Lit(FALSE, 32529014, 1000000),
                      longitude |-> Lit(TRUE, 117033050, 1000000)],
          radius |-> 20000]
    ELSE [center |-> [latitude |-> grid_points[idx][1],
                      longitude |-> grid_points[idx][2]],
          radius |-> RADIUS_M]

\* the token ignored: every request carries the circle
NearbyBodyNoToken(token) ==
    [maxResultCount |-> 20, locationRestriction |-> [circle |-> Circle]]

\* the json body nearby / nearby_page posts
NearbyBody(token) ==
    IF Truthy(token) THEN [pageToken |-> token]
    ELSE [maxResultCount |-> 20, locationRestriction |-> [circle |-> Circle]]

\* the inner loop's list: [p["id"] for p in resp.get("places", [])]
PlaceIds(r) == LET ps == Get(r, "places", <<>>) IN [k \in 1..Len(ps) |-> ps[k].id]

Bump(n) == IF n < PageNumCap THEN n + 1 ELSE n

\* resp = nearby(lat, lon, page_token); page_num += 1; place_ids = [...]
\* limited: the provider ends every walk within MaxPages pages and returns at
\* most budget place entries
Nearby(limited) ==
    /\ pc = "nearby"
    /\ req' = NearbyBody(page_token)
    /\ \E code \in StatusCodes :
         /\ status' = code
         /\ IF RaisesForStatus(code)
            THEN /\ pc' = "aborted"
                 /\ UNCHANGED <<resp, page_num, todo, budget, waited>>
            ELSE \E l \in {m \in AllIdLists : Len(m) <= IF limited THEN budget ELSE 1},
                    t \in IF limited /\ page_num + 1 >= MaxPages
                          THEN LastTokenFields ELSE TokenFields :
                   /\ resp' = SearchBody(l, t)
                   /\ page_num' = Bump(page_num)
                   /\ todo' = PlaceIds(resp')
                   /\ budget' = IF limited THEN budget - Len(l) ELSE budget
                   /\ waited' = 0
                   /\ pc' = "pids"
    /\ UNCHANGED <<variant, box, lats, lons, grid_points, idx, page_token, pid, det, seen,
                   rows, file, msg, fetched, row_ids>>


\* the seen-set test left out
AlreadySeenNever(id) == FALSE

\* `if pid in seen_ids: continue`; tijuana_places_no_website.py keeps no such set
AlreadySeen(id) == variant \in GridVariants /\ id \in seen

\* one pass of `for pid in place_ids` up to the detail response:
\* the seen-set test, seen_ids.add(pid), det = details(pid).
\* pid and det are not read again once the pass is over: the step after the
\* pass forgets them.
Details ==
    /\ pc \in {"pids", "filtered"}
    /\ todo # <<>>
    /\ todo' = Tail(todo)
    /\ LET id == Head(todo)
       IN  IF AlreadySeen(id)
           THEN /\ pid' = None
                /\ det' = EmptyDict
                /\ pc' = "pids"
                /\ UNCHANGED <<status, seen, fetched>>
           ELSE /\ seen' = IF variant \in GridVariants THEN seen \cup {id} ELSE seen
                /\ pid' = id
                /\ fetched' = [fetched EXCEPT ![id] = @ + 1]
                /\ \E code \in StatusCodes :
                     /\ status' = code
                     /\ IF RaisesForStatus(code)
                        THEN pc' = "aborted" /\ det' = EmptyDict
                        ELSE /\ det' \in DetailBodies(variant = "places")
                             /\ pc' = "filter"
    /\ UNCHANGED <<variant, box, lats, lons, grid_points, idx, page_token, page_num, req, resp,
                   rows, waited, file, msg, budget, row_ids>>

\* the website test by value: `if det.get("websiteUri")`
HasWebsiteTruthy(d) == Truthy(Get(d, "websiteUri", None))

\* `if "websiteUri" in det`
HasWebsite(d) == Has(d, "websiteUri")

\* the primary type left out of the type labels
PlaceTypesNoPrimary(d) == Range(Get(d, "types", <<>>))

\* place_types = set(det.get("types", [])), plus det["primaryType"] when truthy
PlaceTypes(d) ==
    Range(Get(d, "types", <<>>)) \cup
    (IF Truthy(Get(d, "primaryType", None)) THEN {d["primaryType"]} ELSE {})

\* the filter the variant applies after the website test
TypeMatch(d) == variant = "places" => PlaceTypes(d) \cap PROMO_TYPES # {}

\* the phone by key: det.get(international, det.get(national, ""))
PhoneByKey(d) ==
    Get(d, "internationalPhoneNumber", Get(d, "nationalPhoneNumber", ""))

\* det.get("internationalPhoneNumber") or det.get("nationalPhoneNumber", "")
Phone(d) ==
    Or(Get(d, "internationalPhoneNumber", None), Get(d, "nationalPhoneNumber", ""))

\* the dict appended to rows; its subscripts raise KeyError on a missing key
RowRaises(d) == ~Has(d, "displayName") \/ ~Has(d, "formattedAddress")

Row(d) == [name |-> d["displayName"].text, address |-> d["formattedAddress"],
           phone |-> Phone(d)]

\* the rest of the pass: the website test, the type test, rows.append
Filter ==
    /\ pc = "filter"
    /\ IF HasWebsite(det) \/ ~TypeMatch(det)
       THEN pc' = "filtered" /\ UNCHANGED <<rows, row_ids>>
       ELSE IF RowRaises(det)
       THEN pc' = "aborted" /\ UNCHANGED <<rows, row_ids>>
       ELSE /\ rows' = Append(rows, Row(det))
            /\ row_ids' = Append(row_ids, pid)
            /\ pc' = "filtered"
    /\ UNCHANGED <<variant, box, lats, lons, grid_points, idx, page_token, page_num, req, resp,
                   todo, pid, det, status, seen, waited, file, msg, budget, fetched>>

\* the walk ended on a missing token only: `if page_token is None: break`
WalkEndsOnNone(token) == token = None

\* `if not page_token: break`
WalkEnds(token) == ~Truthy(token)

\* page_token = resp.get("nextPageToken"); if not page_token: break
EndPage ==
    /\ pc \in {"pids", "filtered"}
    /\ todo = <<>>
    /\ page_token' = Get(resp, "nextPageToken", None)
    /\ pc' = IF WalkEnds(page_token') THEN
                 (IF variant \in GridVariants THEN "for" ELSE "export")
             ELSE "sleep"
    /\ pid' = None
    /\ det' = EmptyDict
    /\ UNCHANGED <<variant, box, lats, lons, grid_points, idx, page_num, req, resp, todo,
                   status, seen, rows, waited, file, msg, budget, fetched, row_ids>>

\* time.sleep(2)
Sleep ==
    /\ pc = "sleep"
    /\ waited' = waited + SLEEP_S
    /\ pc' = "nearby"
    /\ UNCHANGED <<variant, box, lats, lons, grid_points, idx, page_token, page_num, req, resp,
                   todo, pid, det, status, seen, rows, file, msg, budget, fetched,
                   row_ids>>

\* the rows written without writeheader()
CsvLinesNoHeader(rs) ==
    [k \in 1..Len(rs) |-> <<rs[k].name, rs[k].address, rs[k].phone>>]

\* csv.DictWriter(f, fieldnames=[...]): writeheader(), writerows(rows)
CsvLines(rs) ==
    <<HEADER>> \o [k \in 1..Len(rs) |-> <<rs[k].name, rs[k].address, rs[k].phone>>]

\* `if rows:` write the file and print "Saved", `else:` print "No matches found."
Export ==
    /\ pc = "export"
    /\ IF rows # <<>>
       THEN file' = CsvLines(rows) /\ msg' = "Saved"
       ELSE msg' = "No matches found." /\ UNCHANGED file
    /\ pc' = "done"
    /\ UNCHANGED <<variant, box, lats, lons, grid_points, idx, page_token, page_num, req, resp,
                   todo, pid, det, status, seen, rows, waited, budget, fetched,
                   row_ids>>

Next ==
    \/ BuildGrid
    \/ ForPoint
    \/ Nearby(TRUE)
    \/ Details
    \/ Filter
    \/ EndPage
    \/ Sleep
    \/ Export

Spec == Init /\ [][Next]_vars

(***************************************************************************)
(* The grid generator alone, over many boxes and steps.                    *)
(***************************************************************************)
GridInit == InitWith({"exhaustive"}, GridBoxes, 0, FALSE)

GridNext == BuildGrid

GridSpec == GridInit /\ [][GridNext]_vars

(***************************************************************************)
(* The grid scans, from the point where grid_points has been computed,     *)
(* against a provider that is free to name a next page in every response.  *)
(* The script is one sequential process that keeps running until it ends   *)
(* or raises: weak fairness of its steps.                                  *)
(***************************************************************************)
LiveInit == InitWith(GridVariants, CrawlBoxes, 0, TRUE)

LiveNext ==
    \/ ForPoint
    \/ Nearby(FALSE)
    \/ Details
    \/ Filter
    \/ EndPage
    \/ Sleep
    \/ Export

LiveSpec == LiveInit /\ [][LiveNext]_vars /\ WF_vars(LiveNext)


(***************************************************************************)
(* Properties.                                                             *)
(***************************************************************************)

\* how many elements of rows came from place id
RowCount(id) == Cardinality({k \in 1..Len(row_ids) : row_ids[k] = id})

\* how many entries of the current page the inner loop has visited
Visited == Len(PlaceIds(resp)) - Len(todo)

\* C1: in the grid scans every place id sighted so far has had exactly one
\* detail request, issued at its first sighting, and no place id has had more
\* than one detail request or more than one row.
C1_AdmittedOnce ==
    variant \in GridVariants =>
        /\ \A id \in Ids : fetched[id] <= 1 /\ RowCount(id) <= 1
        /\ \A id \in Ids : fetched[id] = 1 <=> id \in seen
        /\ \A k \in 1..Visited : fetched[PlaceIds(resp)[k]] = 1

\* a later sighting of a place whose first sighting was rejected has just been
\* skipped at the second grid point
C1_Witness ==
    /\ variant \in GridVariants
    /\ idx = 2
    /\ pc = "pids"
    /\ Visited >= 1
    /\ pid = None
    /\ rows = <<>>
    /\ fetched[PlaceIds(resp)[Visited]] = 1

\* C2: a pass whose detail response has the key websiteUri, whatever its value
\* and the other fields, leaves the accumulated rows as they were.
C2_WebsiteNeverAppended ==
    [][(pc = "filter" /\ "websiteUri" \in DOMAIN det)
           => (rows' = rows /\ pc' = "filtered")]_vars

\* places.py has passed over a place with an empty websiteUri, a name, an
\* address and a matching category, and holds no row
C2_Witness ==
    /\ variant = "places"
    /\ pc = "filtered"
    /\ "websiteUri" \in DOMAIN det
    /\ det["websiteUri"] = ""
    /\ "displayName" \in DOMAIN det
    /\ "primaryType" \in DOMAIN det
    /\ det["primaryType"] \in PROMO_TYPES
    /\ rows = <<>>

\* the type labels of a detail response: its types and its primaryType
TypeLabels(d) ==
    (IF "types" \in DOMAIN d THEN {d["types"][k] : k \in 1..Len(d["types"])} ELSE {})
    \cup (IF "primaryType" \in DOMAIN d THEN {d["primaryType"]} ELSE {})

\* C3: in places.py a pass whose detail response has no websiteUri and has a
\* name and an address appends a row exactly when its type labels meet
\* PROMO_TYPES.
C3_RowIffCategory ==
    [][(/\ variant = "places"
        /\ pc = "filter"
        /\ "websiteUri" \notin DOMAIN det
        /\ "displayName" \in DOMAIN det
        /\ "formattedAddress" \in DOMAIN det)
           => ((Len(rows') = Len(rows) + 1) <=> (TypeLabels(det) \cap PROMO_TYPES # {}))]_vars

\* places.py has appended a row for a place that matches by its primaryType only
C3_Witness ==
    /\ variant = "places"
    /\ pc = "filtered"
    /\ "websiteUri" \notin DOMAIN det
    /\ "types" \in DOMAIN det
    /\ det["types"] = <<"bank">>
    /\ "primaryType" \in DOMAIN det
    /\ det["primaryType"] = "cafe"
    /\ Len(rows) = 1

\* the phone as the claim words it: the international number when present,
\* else the national number when present, else ""
PhoneIfPresent(d) ==
    IF "internationalPhoneNumber" \in DOMAIN d THEN d["internationalPhoneNumber"]
    ELSE IF "nationalPhoneNumber" \in DOMAIN d THEN d["nationalPhoneNumber"]
    ELSE ""

\* the phone with an empty international number counted as missing
PhoneIfNonEmpty(d) ==
    IF "internationalPhoneNumber" \in DOMAIN d /\ d["internationalPhoneNumber"] # ""
    THEN d["internationalPhoneNumber"]
    ELSE IF "nationalPhoneNumber" \in DOMAIN d THEN d["nationalPhoneNumber"]
    ELSE ""

\* C4 as claimed: the phone of every appended row is the international number
\* whenever the response has one, else the national number whenever it has one,
\* else "".
C4_PhoneIfPresent ==
    [][(pc = "filter" /\ Len(rows') = Len(rows) + 1)
           => rows'[Len(rows')].phone = PhoneIfPresent(det)]_vars

\* C4 as amended: the phone of every appended row is the international number
\* whenever the response has a non-empty one, else the national number
\* whenever it has one, else "".
C4_PhoneIfNonEmpty ==
    [][(pc = "filter" /\ Len(rows') = Len(rows) + 1)
           => rows'[Len(rows')].phone = PhoneIfNonEmpty(det)]_vars

\* a row has been appended for a response with an empty international number
\* and a national number, and carries the national number
C4_Witness ==
    /\ pc = "filtered"
    /\ Len(rows) = 1
    /\ "internationalPhoneNumber" \in DOMAIN det
    /\ det["internationalPhoneNumber"] = ""
    /\ "nationalPhoneNumber" \in DOMAIN det
    /\ rows[1].phone = det["nationalPhoneNumber"]
    /\ rows[1].phone # ""

\* C5: once the run has ended without an error, the file holds the header
\* name,address,phone and then one line per row, in order, when there are rows;
\* with no rows there is no file and the message is "No matches found."; and
\* no file exists before the run has ended.
C5_FileMatchesRows ==
    /\ pc # "done" => file = NoFile
    /\ (pc = "done" /\ rows # <<>>) =>
          /\ Len(file) = Len(rows) + 1
          /\ file[1] = <<"name", "address", "phone">>
          /\ \A k \in 1..Len(rows) :
                file[k + 1] = <<rows[k].name, rows[k].address, rows[k].phone>>
    /\ (pc = "done" /\ rows = <<>>) => (file = NoFile /\ msg = "No matches found.")

\* a run has ended with two different rows written
C5_Witness ==
    /\ pc = "done"
    /\ Len(rows) = 2
    /\ rows[1] # rows[2]
    /\ Len(file) = 3

\* C6: a response with an error status ends the run where it is: no step
\* follows, and no file exists.
C6_ErrorAborts ==
    /\ []((status >= 400) => (pc = "aborted" /\ file = NoFile))
    /\ [][pc # "aborted"]_vars

\* a detail request has failed after a row had been accumulated
C6_Witness ==
    /\ pc = "aborted"
    /\ status = 500
    /\ pid # None
    /\ Len(rows) >= 1
    /\ file = NoFile

\* C8: tijuana_places_no_website.py issues at most one detail request per
\* place id and appends at most one row per place id.
C8_SingleCircleOnce ==
    variant = "tijuana" => \A id \in Ids : fetched[id] <= 1 /\ RowCount(id) <= 1

\* the body of a first request: the circle and the result cap, no token
IsCircleBody(b) ==
    /\ DOMAIN b = {"maxResultCount", "locationRestriction"}
    /\ b["maxResultCount"] = 20
    /\ variant \in GridVariants =>
          b["locationRestriction"] =
              [circle |-> [center |-> [latitude |-> grid_points[idx][1],
                                       longitude |-> grid_points[idx][2]],
                           radius |-> 1500]]

\* the continuation token of the last search response, None when it has none
RespToken == IF "nextPageToken" \in DOMAIN resp THEN resp["nextPageToken"] ELSE None

\* C9: the first request of a walk carries the circle and no token; a later
\* request carries only the token of the response before it, and is sent when
\* the page before it has been worked off and the delay has been slept; a
\* response with no token or an empty one ends the walk with no delay, and a
\* walk is only ever entered with no token.
C9_PageWalk ==
    /\ [][pc = "nearby" =>
            IF page_num = 0
            THEN IsCircleBody(req')
            ELSE /\ req' = [pageToken |-> RespToken]
                 /\ RespToken \notin {None, ""}
                 /\ todo = <<>>
                 /\ waited = 2]_vars
    /\ [][(pc \in {"pids", "filtered"} /\ todo = <<>>) =>
            IF RespToken \in {None, ""}
            THEN pc' \in {"for", "export"} /\ waited' = 0
            ELSE pc' = "sleep"]_vars
    /\ [][pc = "for" => (pc' = "nearby" => page_token' = None /\ page_num' = 0)]_vars

\* the second page of the second grid point has been fetched with a token
C9_Witness ==
    /\ variant \in GridVariants
    /\ idx = 2
    /\ page_num = 2
    /\ pc = "pids"
    /\ "pageToken" \in DOMAIN req
    /\ waited = 0

RECURSIVE CeilRec(_, _, _, _)
CeilRec(span, step, acc, n) ==
    IF ~LessMag(acc, span) THEN n ELSE CeilRec(span, step, AddMag(acc, step), n + 1)

\* ceil((hi - lo) / step) in exact arithmetic, for lo <= hi and step > 0
CeilSteps(lo, hi, step) ==
    LET span == IF lo.neg = hi.neg
                THEN (IF lo.neg THEN SubMag(lo.mag, hi.mag) ELSE SubMag(hi.mag, lo.mag))
                ELSE AddMag(lo.mag, hi.mag)
    IN  CeilRec(span, step.mag, ZeroMag, 0)

\* C7: each axis has ceil((max - min) / step) points, the first is min and
\* none reaches max, and the grid has as many points as the product of the
\* two axes.
C7_GridCounts ==
    pc # "grid" =>
        /\ Len(lats) = CeilSteps(box.LAT_MIN, box.LAT_MAX, box.LAT_STEP)
        /\ Len(lons) = CeilSteps(box.LON_MIN, box.LON_MAX, box.LON_STEP)
        /\ lats[1] = box.LAT_MIN /\ lons[1] = box.LON_MIN
        /\ \A k \in 1..Len(lats) : FLess(lats[k], box.LAT_MAX)
        /\ \A k \in 1..Len(lons) : FLess(lons[k], box.LON_MAX)
        /\ Len(grid_points) = Len(lats) * Len(lons)

====
